---- MODULE Spec2Model ----
(***************************************************************************)
(* The multi-connection relay of gogo-mc-bedrock-server                    *)
(* (internal/server: ConnectionManager, WrapperConnection and the          *)
(* subscriber side of CentralServer.handleWebSocket).                      *)
(*                                                                         *)
(* Goroutines are processes with a position (pc); one action is one run of *)
(* a goroutine between two points where it can block or where another      *)
(* goroutine can observe it.  Channel operations follow the Go runtime:    *)
(* reconnectSignal is unbuffered and every sender uses select/default, so  *)
(* a send succeeds only while manage is parked in a blocking select; done  *)
(* is closed, never sent on; sendChan is a buffered FIFO.                  *)
(***************************************************************************)
EXTENDS Integers, Sequences, FiniteSets, TLC

\* ------------------------------------------------------------ bounds
\* Every specification below runs the same next-state relation; its initial
\* state fixes what the environment may do in one behaviour (lim):
\*   events: calls of the public interface, dials that succeed or are refused
\*           as unauthorized, frames, remote failures, ticks
\*   fails:  dials that fail transiently
\*   objs:   WrapperConnection objects created;  ids: identifiers in use
CoreEvents == 4
CoreFails == 2
CoreObjs == 1
CoreIds == 1
CoreSocks == 2
BackoffEvents == 3
BackoffFails == 6
BackoffObjs == 1
BackoffIds == 1
BackoffSocks == 2
LookupEvents == 5
LookupFails == 0
LookupObjs == 2
LookupIds == 2
LookupSocks == 1
RegEvents == 4
RegFails == 1
RegObjs == 2
RegIds == 2
RegSocks == 2
FifoEvents == 6
FifoFails == 1
FifoObjs == 1
FifoIds == 1
FifoSocks == 2
GateEvents == 2
GateFails == 0
GateObjs == 1
GateIds == 1
GateSocks == 2
ApiEvents == 4
ApiFails == 0
ApiObjs == 2
ApiIds == 2
ApiSocks == 1
ContainEvents == 7
ContainFails == 0
ContainObjs == 2
ContainIds == 2
ContainSocks == 2
RelayEvents == 6
RelayFails == 0
RelayObjs == 1
RelayIds == 1
RelaySocks == 1
InboundEvents == 9
InboundFails == 0
InboundObjs == 1
InboundIds == 1
InboundSocks == 3
MaxObjs == 3       \* size of the object table
MaxSocks == 3      \* size of the transport table
MaxClients == 1    \* dashboard sockets
MaxLines == 3      \* output lines the runner produces
BufCap == 2        \* lines kept in outputBuffer (1000 in the code, scaled)
MaxConns == 2      \* sockets that attach to the single-agent server
WriteFails == 1    \* writes to a socket that fail because the client went away
SendCap == 1       \* capacity of sendChan (100 in the code, scaled)

\* ------------------------------------------------------------ constants
maxReconnectAttempts == 5
reconnectDelay == 5

StatusDisconnected == "disconnected"
StatusConnecting == "connecting"
StatusConnected == "connected"
StatusError == "error"
StatusReconnecting == "reconnecting"
StatusAuthFailed == "authentication failed"

ErrDial == "dial error"
ErrConnect == "failed to connect to wrapper: dial error"
ErrMaxAttempts == "max reconnection attempts reached. Click retry to try again."
ErrRead == "read error"
ErrWrite == "write error"
ErrConnNil == "connection is nil"

Objs == 1..MaxObjs
Socks == 1..MaxSocks
Clients == 1..MaxClients

VARIABLES
    connections,  \* ConnectionManager.connections: id -> object
    nObjs,        \* objects created so far (objects are 1..nObjs)
    W,            \* the WrapperConnection objects
    nSocks,       \* transports opened so far (1..nSocks)
    S,            \* transports and the pump pair started with each
    C,            \* dashboard sockets and their handleWebSocket goroutine
    frames,       \* frames sent by the remote agents so far
    ret,          \* the last call of the public interface and its result
    panicked,     \* a goroutine panicked: the process is gone
    budget,       \* inputs of the environment still allowed
    fails,        \* transient dial failures still allowed
    lim,          \* the limits of this specification (never changes)
    req,          \* the last request received by the gateway
    http,         \* the answer it got: status code, handler invoked, error text
    list,         \* the slice returned by the last ListConnections call
    server        \* the single-agent Server, its sockets and its goroutines

vars == <<connections, nObjs, W, nSocks, S, C, frames, ret, panicked, budget, fails,
          lim, req, http, list, server>>

Ids == 1..lim.ids

\* an action that takes n inputs of the environment
Pay(n) ==
    /\ ~panicked /\ budget >= n /\ budget' = budget - n /\ fails' = fails /\ lim' = lim
    /\ server' = server

\* ... and that returns no slice of connections to its caller
Charge(n) == Pay(n) /\ list' = list

\* ... and that is no request to the gateway
Spend(n) == Charge(n) /\ req' = req /\ http' = http

\* a dial takes one transient failure, or one other input
SpendDial(outcome) ==
    /\ ~panicked
    /\ lim' = lim
    /\ req' = req
    /\ http' = http
    /\ list' = list
    /\ server' = server
    /\ IF outcome = "fail"
       THEN fails > 0 /\ fails' = fails - 1 /\ budget' = budget
       ELSE budget > 0 /\ budget' = budget - 1 /\ fails' = fails

\* ------------------------------------------------------------ state
BlankW ==
    [ID |-> 0, Status |-> StatusDisconnected, Error |-> "", conn |-> 0,
     sendChan |-> <<>>, clients |-> {}, rlock |-> 0, done |-> 0,
     reconnectMu |-> FALSE, reconnectAttempts |-> 0, pc |-> "none",
     MessagesSent |-> 0, MessagesReceived |-> 0, Reconnections |-> 0,
     fdials |-> 0, slept |-> 0, accepted |-> 0, wire |-> <<>>, dials |-> 0]

NewW(id) ==
    [BlankW EXCEPT !.ID = id, !.Status = StatusConnecting, !.pc = "connect"]

BlankS == [owner |-> 0, open |-> FALSE, rp |-> "none", rsock |-> 0, rmsg |-> 0,
           rclient |-> 0, rtodo |-> {}, wp |-> "none", wmsg |-> 0,
           werr |-> FALSE]

BlankC == [pc |-> "none", w |-> 0, log |-> <<>>, closes |-> 0, nread |-> 0,
           diag |-> <<>>]

Created == 1..nObjs

IsDone(o) == W[o].done > 0

\* select { case w.reconnectSignal <- struct{}{}: ...; default: }: the send
\* finds a receiver only while manage is parked in one of its two blocking
\* selects; close(done) resolves a parked select at once, so no receiver is
\* left after done has fired.
ManageParked(o) == W[o].pc \in {"wait280", "wait304"} /\ ~IsDone(o)

\* what the receiver does with the signal: at line 283 it resets the counter and
\* loops (local to manage); at line 305 it goes on to close the transport.
Received(w) ==
    IF w.pc = "wait280"
    THEN [w EXCEPT !.pc = "connect", !.reconnectAttempts = 0, !.fdials = 0,
                   !.slept = 0]
    ELSE [w EXCEPT !.pc = "got304"]

\* the non-blocking signal of the pumps' deferred functions
Signal(w, parked) == IF parked THEN Received(w) ELSE w

CloseSockLeak(sk, c) == sk

CloseSock(sk, c) == IF c = 0 THEN sk ELSE [sk EXCEPT ![c].open = FALSE]

BlankReq ==
    [route |-> "none", method |-> "none", wrapper |-> 0, authorization |-> <<>>,
     xkey |-> <<>>, auth |-> <<>>]

BlankHTTP == [status |-> 0, handler |-> "none", body |-> ""]

\* part_007, New: no socket, an empty buffer, handleRunnerOutput at its range
BlankConn == [pc |-> "none", idx |-> 0, writing |-> 0, log |-> <<>>, closed |-> FALSE]

BlankServer ==
    [outputBuffer |-> <<>>, connections |-> {}, rlock |-> 0, pc |-> "recv",
     line |-> 0, todo |-> {}, produced |-> 0, overlap |-> FALSE,
     wfails |-> WriteFails, conn |-> [k \in 1..MaxConns |-> BlankConn]]

InitWith(l) ==
    /\ lim = l
    /\ budget = l.events
    /\ fails = l.fails
    /\ connections = << >>
    /\ nObjs = 0
    /\ W = [o \in Objs |-> BlankW]
    /\ nSocks = 0
    /\ S = [s \in Socks |-> BlankS]
    /\ C = [c \in Clients |-> BlankC]
    /\ frames = 0
    /\ ret = [op |-> "none", o |-> 0, res |-> "none"]
    /\ panicked = FALSE
    /\ req = BlankReq
    /\ http = BlankHTTP
    /\ list = << >>
    /\ server = BlankServer

Init ==
    InitWith([events |-> CoreEvents, fails |-> CoreFails, objs |-> CoreObjs,
              ids |-> CoreIds, socks |-> CoreSocks])

InitBackoff ==
    InitWith([events |-> BackoffEvents, fails |-> BackoffFails,
              objs |-> BackoffObjs, ids |-> BackoffIds, socks |-> BackoffSocks])

InitRegistry ==
    InitWith([events |-> RegEvents, fails |-> RegFails, objs |-> RegObjs,
              ids |-> RegIds, socks |-> RegSocks])

InitFifo ==
    InitWith([events |-> FifoEvents, fails |-> FifoFails, objs |-> FifoObjs,
              ids |-> FifoIds, socks |-> FifoSocks])

InitInbound ==
    InitWith([events |-> InboundEvents, fails |-> InboundFails,
              objs |-> InboundObjs, ids |-> InboundIds, socks |-> InboundSocks])

InitContain ==
    InitWith([events |-> ContainEvents, fails |-> ContainFails,
              objs |-> ContainObjs, ids |-> ContainIds, socks |-> ContainSocks])

InitApi ==
    InitWith([events |-> ApiEvents, fails |-> ApiFails, objs |-> ApiObjs,
              ids |-> ApiIds, socks |-> ApiSocks])

InitRelay ==
    InitWith([events |-> RelayEvents, fails |-> RelayFails, objs |-> RelayObjs,
              ids |-> RelayIds, socks |-> RelaySocks])

InitLookup ==
    InitWith([events |-> LookupEvents, fails |-> LookupFails, objs |-> LookupObjs,
              ids |-> LookupIds, socks |-> LookupSocks])

InitGate ==
    InitWith([events |-> GateEvents, fails |-> GateFails, objs |-> GateObjs,
              ids |-> GateIds, socks |-> GateSocks])

\* ------------------------------------------------------------ ConnectionManager
ConnectMissingCheck(id) ==
    /\ nObjs < lim.objs
    /\ nObjs' = nObjs + 1
    /\ W' = [W EXCEPT ![nObjs + 1] = NewW(id)]
    /\ connections' = [i \in DOMAIN connections \cup {id} |->
                          IF i = id THEN nObjs + 1 ELSE connections[i]]
    /\ ret' = [op |-> "Connect", o |-> 0, res |-> "ok"]
    /\ UNCHANGED <<nSocks, S, C, frames, panicked>>
    /\ Spend(1)

Connect(id) ==
    /\ IF id \in DOMAIN connections
       THEN /\ ret' = [op |-> "Connect", o |-> 0, res |-> "exists"]
            /\ UNCHANGED <<connections, nObjs, W>>
       ELSE /\ nObjs < lim.objs
            /\ nObjs' = nObjs + 1
            /\ W' = [W EXCEPT ![nObjs + 1] = NewW(id)]
            /\ connections' = [i \in DOMAIN connections \cup {id} |->
                                  IF i = id THEN nObjs + 1 ELSE connections[i]]
            /\ ret' = [op |-> "Connect", o |-> 0, res |-> "ok"]
    /\ UNCHANGED <<nSocks, S, C, frames, panicked>>
    /\ Spend(1)

Registered == {connections[i] : i \in DOMAIN connections}

\* identifiers are interchangeable: a call names one already used or the next one
KnownIds == {W[o].ID : o \in Created}
CallIds == {i \in Ids : i <= Cardinality(KnownIds) + 1}

\* dashboard sockets are interchangeable: the next one to connect is the lowest
NextClient == {c \in Clients : C[c].pc = "none" /\ \A x \in 1..(c - 1) : C[x].pc # "none"}

DisconnectAllKeepsEntries ==
    /\ S' = [s \in Socks |->
               IF \E o \in Registered : W[o].conn = s
               THEN [S[s] EXCEPT !.open = FALSE] ELSE S[s]]
    /\ W' = [o \in Objs |->
               IF o \in Registered THEN [W[o] EXCEPT !.done = @ + 1,
                     !.pc = IF @ \in {"wait280", "wait304"} THEN "returned" ELSE @]
               ELSE W[o]]
    /\ \A o \in Registered : W[o].done < 2
    /\ ret' = [op |-> "DisconnectAll", o |-> 0, res |-> "ok"]
    /\ UNCHANGED <<connections, nObjs, nSocks, C, frames, panicked>>
    /\ Spend(1)

DisconnectAll ==
    /\ S' = [s \in Socks |->
               IF \E o \in Registered : W[o].conn = s
               THEN [S[s] EXCEPT !.open = FALSE] ELSE S[s]]
    /\ W' = [o \in Objs |->
               IF o \in Registered THEN [W[o] EXCEPT !.done = @ + 1,
                     !.pc = IF @ \in {"wait280", "wait304"} THEN "returned" ELSE @]
               ELSE W[o]]
    /\ connections' = << >>
    /\ ret' = [op |-> "DisconnectAll", o |-> 0, res |-> "ok"]
    /\ UNCHANGED <<nObjs, nSocks, C, frames, panicked>>
    /\ Spend(1)

\* lines 111-119: under mu.RLock, look the id up in the map
GetConnectionStale(id) ==
    /\ ret' = IF \E o \in Created : W[o].ID = id
              THEN [op |-> "GetConnection",
                    o |-> CHOOSE o \in Created : W[o].ID = id, res |-> "found"]
              ELSE [op |-> "GetConnection", o |-> 0, res |-> "notfound"]
    /\ UNCHANGED <<connections, nObjs, W, nSocks, S, C, frames, panicked>>
    /\ Spend(1)

GetConnection(id) ==
    /\ ret' = IF id \in DOMAIN connections
              THEN [op |-> "GetConnection", o |-> connections[id], res |-> "found"]
              ELSE [op |-> "GetConnection", o |-> 0, res |-> "notfound"]
    /\ UNCHANGED <<connections, nObjs, W, nSocks, S, C, frames, panicked>>
    /\ Spend(1)

\* the orders in which a range over the map can visit its entries
Orderings(objs) ==
    {f \in [1..Cardinality(objs) -> objs] :
        \A i, j \in 1..Cardinality(objs) : f[i] = f[j] => i = j}

\* lines 121-132: under mu.RLock, append every pointer of the map to a new slice
ListConnections ==
    /\ list' \in Orderings(Registered)
    /\ ret' = [op |-> "ListConnections", o |-> 0, res |-> "ok"]
    /\ UNCHANGED <<connections, nObjs, W, nSocks, S, C, frames, panicked>>
    /\ Pay(1) /\ req' = req /\ http' = http

\* ------------------------------------------------------------ WrapperConnection.connect
\* lines 322-351: take reconnectMu, close and drop the transport still held
connect_begin(o) ==
    /\ W[o].pc = "connect"
    /\ ~W[o].reconnectMu
    /\ S' = CloseSock(S, W[o].conn)
    /\ W' = [W EXCEPT ![o].reconnectMu = TRUE, ![o].conn = 0, ![o].pc = "dial"]
    /\ UNCHANGED <<connections, nObjs, nSocks, C, frames, ret, panicked>>
    /\ Spend(0)

DialOutcomes == {"ok", "unauthorized", "fail"}

\* lines 353-384: the dial returns; on success the pumps are started
connect_dialCountsFailures(o, outcome) ==
    /\ W[o].pc = "dial"
    /\ CASE outcome = "ok" ->
              /\ nSocks < lim.socks
              /\ nSocks' = nSocks + 1
              /\ S' = [S EXCEPT ![nSocks + 1] =
                         [BlankS EXCEPT !.owner = o, !.open = TRUE,
                                        !.rp = "start", !.wp = "select"]]
              /\ W' = [W EXCEPT ![o].conn = nSocks + 1,
                                ![o].Status = StatusConnected,
                                ![o].Reconnections = @ + 1, ![o].fdials = 0,
                                ![o].dials = @ + 1,
                                ![o].slept = 0,
                                ![o].reconnectMu = FALSE, ![o].pc = "ret_ok"]
         [] outcome = "unauthorized" ->
              /\ W' = [W EXCEPT ![o].Status = StatusError,
                                ![o].Error = StatusAuthFailed, ![o].fdials = @ + 1,
                                ![o].Reconnections = @ + 1,
                                ![o].dials = @ + 1,
                                ![o].reconnectMu = FALSE, ![o].pc = "ret_auth"]
              /\ UNCHANGED <<nSocks, S>>
         [] OTHER ->
              /\ W' = [W EXCEPT ![o].Status = StatusError, ![o].Error = ErrDial,
                                ![o].fdials = @ + 1, ![o].dials = @ + 1,
                                ![o].Reconnections = @ + 1,
                                ![o].reconnectMu = FALSE, ![o].pc = "ret_err"]
              /\ UNCHANGED <<nSocks, S>>
    /\ UNCHANGED <<connections, nObjs, C, frames, ret, panicked>>
    /\ SpendDial(outcome)

connect_dial(o, outcome) ==
    /\ W[o].pc = "dial"
    /\ CASE outcome = "ok" ->
              /\ nSocks < lim.socks
              /\ nSocks' = nSocks + 1
              /\ S' = [S EXCEPT ![nSocks + 1] =
                         [BlankS EXCEPT !.owner = o, !.open = TRUE,
                                        !.rp = "start", !.wp = "select"]]
              /\ W' = [W EXCEPT ![o].conn = nSocks + 1,
                                ![o].Status = StatusConnected,
                                ![o].Reconnections = @ + 1, ![o].fdials = 0,
                                ![o].dials = @ + 1,
                                ![o].slept = 0,
                                ![o].reconnectMu = FALSE, ![o].pc = "ret_ok"]
         [] outcome = "unauthorized" ->
              /\ W' = [W EXCEPT ![o].Status = StatusError,
                                ![o].Error = StatusAuthFailed, ![o].fdials = @ + 1,
                                ![o].dials = @ + 1,
                                ![o].reconnectMu = FALSE, ![o].pc = "ret_auth"]
              /\ UNCHANGED <<nSocks, S>>
         [] OTHER ->
              /\ W' = [W EXCEPT ![o].Status = StatusError, ![o].Error = ErrDial,
                                ![o].fdials = @ + 1, ![o].dials = @ + 1,
                                ![o].reconnectMu = FALSE, ![o].pc = "ret_err"]
              /\ UNCHANGED <<nSocks, S>>
    /\ UNCHANGED <<connections, nObjs, C, frames, ret, panicked>>
    /\ SpendDial(outcome)

\* ------------------------------------------------------------ WrapperConnection.manage
\* line 292: reconnectDelay * time.Duration(reconnectAttempts), in seconds
SleepTime(attempts) == reconnectDelay * attempts

manage_failedOffByOne(o) ==
    /\ W[o].pc \in {"ret_auth", "ret_err"}
    /\ W' = [W EXCEPT ![o] =
          IF W[o].pc = "ret_auth"
          THEN [@ EXCEPT !.Status = StatusError, !.Error = StatusAuthFailed,
                         !.pc = "authfailed"]
          ELSE IF IsDone(o)
          THEN [@ EXCEPT !.Status = StatusError, !.Error = ErrConnect,
                         !.pc = "returned"]
          ELSE IF @.reconnectAttempts > maxReconnectAttempts
          THEN [@ EXCEPT !.Status = StatusError, !.Error = ErrMaxAttempts,
                         !.pc = "wait280"]
          ELSE [@ EXCEPT !.Status = StatusReconnecting, !.Error = ErrConnect,
                         !.reconnectAttempts = @ + 1,
                         !.slept = @ + SleepTime(W[o].reconnectAttempts + 1),
                         !.pc = "sleep"]]
    /\ UNCHANGED <<connections, nObjs, nSocks, S, C, frames, ret, panicked>>
    /\ Spend(0)

\* lines 257-295: connect returned an error.  The receive of line 272 never
\* fires: the select has a default and no sender ever blocks on reconnectSignal.
manage_failed(o) ==
    /\ W[o].pc \in {"ret_auth", "ret_err"}
    /\ W' = [W EXCEPT ![o] =
          IF W[o].pc = "ret_auth"
          THEN [@ EXCEPT !.Status = StatusError, !.Error = StatusAuthFailed,
                         !.pc = "authfailed"]
          ELSE IF IsDone(o)
          THEN [@ EXCEPT !.Status = StatusError, !.Error = ErrConnect,
                         !.pc = "returned"]
          ELSE IF @.reconnectAttempts >= maxReconnectAttempts
          THEN [@ EXCEPT !.Status = StatusError, !.Error = ErrMaxAttempts,
                         !.pc = "wait280"]
          ELSE [@ EXCEPT !.Status = StatusReconnecting, !.Error = ErrConnect,
                         !.reconnectAttempts = @ + 1,
                         !.slept = @ + SleepTime(W[o].reconnectAttempts + 1),
                         !.pc = "sleep"]]
    /\ UNCHANGED <<connections, nObjs, nSocks, S, C, frames, ret, panicked>>
    /\ Spend(0)

\* line 292: time.Sleep returns (it does not look at done), line 294: continue
manage_wake(o) ==
    /\ W[o].pc = "sleep"
    /\ W' = [W EXCEPT ![o].pc = "connect"]
    /\ UNCHANGED <<connections, nObjs, nSocks, S, C, frames, ret, panicked>>
    /\ Spend(0)

manage_connectedKeepsAttempts(o) ==
    /\ W[o].pc = "ret_ok"
    /\ W' = [W EXCEPT ![o].Error = "",
                      ![o].Status = StatusConnected,
                      ![o].pc = IF IsDone(o) THEN "returned" ELSE "wait304"]
    /\ UNCHANGED <<connections, nObjs, nSocks, S, C, frames, ret, panicked>>
    /\ Spend(0)

\* lines 298-304: connect returned nil; park in the select of line 304, which
\* returns at once when done is closed
manage_connected(o) ==
    /\ W[o].pc = "ret_ok"
    /\ W' = [W EXCEPT ![o].reconnectAttempts = 0, ![o].Error = "",
                      ![o].Status = StatusConnected,
                      ![o].pc = IF IsDone(o) THEN "returned" ELSE "wait304"]
    /\ UNCHANGED <<connections, nObjs, nSocks, S, C, frames, ret, panicked>>
    /\ Spend(0)

\* lines 305-314: woken from the select of line 304 by reconnectSignal
manage_reconnect(o) ==
    /\ W[o].pc = "got304"
    /\ S' = CloseSock(S, W[o].conn)
    /\ W' = [W EXCEPT ![o].pc = "connect"]
    /\ UNCHANGED <<connections, nObjs, nSocks, C, frames, ret, panicked>>
    /\ Spend(0)

\* ------------------------------------------------------------ WrapperConnection.Retry
RetryNoStatusCheck(o) ==
    /\ o \in Created
    /\ ~W[o].reconnectMu
    /\ IF FALSE
       THEN /\ ret' = [op |-> "Retry", o |-> o, res |-> "already"]
            /\ W' = W
       ELSE IF ManageParked(o)
       THEN /\ ret' = [op |-> "Retry", o |-> o, res |-> "ok"]
            /\ W' = [W EXCEPT ![o] = [Received(@) EXCEPT
                                        !.Status = StatusConnecting]]
       ELSE IF IsDone(o)
       THEN /\ ret' = [op |-> "Retry", o |-> o, res |-> "closed"]
            /\ W' = W
       ELSE /\ ret' = [op |-> "Retry", o |-> o, res |-> "inprogress"]
            /\ W' = W
    /\ UNCHANGED <<connections, nObjs, nSocks, S, C, frames, panicked>>
    /\ Spend(1)

RetryCall(o) ==
    /\ o \in Created
    /\ ~W[o].reconnectMu
    /\ IF W[o].Status \in {StatusConnected, StatusConnecting}
       THEN /\ ret' = [op |-> "Retry", o |-> o, res |-> "already"]
            /\ W' = W
       ELSE IF ManageParked(o)
       THEN /\ ret' = [op |-> "Retry", o |-> o, res |-> "ok"]
            /\ W' = [W EXCEPT ![o] = [Received(@) EXCEPT
                                        !.Status = StatusConnecting]]
       ELSE IF IsDone(o)
       THEN /\ ret' = [op |-> "Retry", o |-> o, res |-> "closed"]
            /\ W' = W
       ELSE /\ ret' = [op |-> "Retry", o |-> o, res |-> "inprogress"]
            /\ W' = W
    /\ UNCHANGED <<connections, nObjs, nSocks, S, C, frames, panicked>>

Retry(o) == RetryCall(o) /\ Spend(1)

\* ------------------------------------------------------------ WrapperConnection.SendMessage
\* select { case w.sendChan <- message; case <-w.done; default }: Go picks
\* among the ready cases, default only when none is ready
SendResultsOffByOne(o) ==
    IF W[o].Status # StatusConnected THEN {"notconnected"}
    ELSE LET room == Len(W[o].sendChan) <= SendCap
         IN  (IF room THEN {"ok"} ELSE {}) \cup
             (IF IsDone(o) THEN {"closed"} ELSE {}) \cup
             (IF ~room /\ ~IsDone(o) THEN {"full"} ELSE {})

SendResultsNoStatusCheck(o) ==
    LET room == Len(W[o].sendChan) < SendCap
    IN  (IF room THEN {"ok"} ELSE {}) \cup
        (IF IsDone(o) THEN {"closed"} ELSE {}) \cup
        (IF ~room /\ ~IsDone(o) THEN {"full"} ELSE {})

SendResults(o) ==
    IF W[o].Status # StatusConnected THEN {"notconnected"}
    ELSE LET room == Len(W[o].sendChan) < SendCap
         IN  (IF room THEN {"ok"} ELSE {}) \cup
             (IF IsDone(o) THEN {"closed"} ELSE {}) \cup
             (IF ~room /\ ~IsDone(o) THEN {"full"} ELSE {})

\* the error SendMessage returns with each result (lines 172-182)
SendError(res, status) ==
    CASE res = "ok" -> ""
      [] res = "notconnected" ->
            "wrapper is not connected (status: " \o status \o ")"
      [] res = "closed" -> "connection is closed"
      [] res = "full" -> "message buffer full"

SendMessage(o, m) ==
    /\ o \in Created
    /\ \E r \in SendResults(o) :
         /\ ret' = [op |-> "SendMessage", o |-> o, res |-> r]
         /\ W' = [W EXCEPT ![o].sendChan = IF r = "ok" THEN Append(@, m) ELSE @,
                           ![o].accepted = IF r = "ok" THEN @ + 1 ELSE @]
    /\ UNCHANGED <<connections, nObjs, nSocks, S, C, frames, panicked>>
    /\ Spend(1)

\* ------------------------------------------------------------ WrapperConnection.readPump
\* the deferred function, lines 388-401
readPump_defer(s) ==
    LET o == S[s].owner IN
    /\ S[s].rp = "defer"
    /\ S' = [CloseSock(S, W[o].conn) EXCEPT ![s].rp = "exited"]
    /\ W' = [W EXCEPT ![o] = Signal([@ EXCEPT !.Status = StatusDisconnected],
                                    ManageParked(o))]
    /\ UNCHANGED <<connections, nObjs, nSocks, C, frames, ret, panicked>>
    /\ Spend(0)

\* lines 403-425; SetReadDeadline fails on a transport that is already closed
readPump_start(s) ==
    LET o == S[s].owner IN
    /\ S[s].rp = "start"
    /\ IF W[o].conn = 0
       THEN /\ W' = [W EXCEPT ![o].Error = ErrConnNil]
            /\ S' = [S EXCEPT ![s].rp = "defer"]
       ELSE /\ W' = W
            /\ S' = [S EXCEPT ![s].rp = IF S[W[o].conn].open THEN "read" ELSE "defer",
                              ![s].rsock = IF S[W[o].conn].open THEN W[o].conn ELSE 0]
    /\ UNCHANGED <<connections, nObjs, nSocks, C, frames, ret, panicked>>
    /\ Spend(0)

\* lines 428, 440-444: a frame arrives on the transport the pump reads
readPump_message(s) ==
    LET o == S[s].owner IN
    /\ S[s].rp = "read"
    /\ S[S[s].rsock].open
    /\ frames' = frames + 1
    /\ W' = [W EXCEPT ![o].MessagesReceived = @ + 1]
    /\ S' = [S EXCEPT ![s].rp = "bcast", ![s].rmsg = frames + 1]
    /\ UNCHANGED <<connections, nObjs, nSocks, C, ret, panicked>>
    /\ Spend(1)

\* lines 428-438: ReadMessage fails (transport closed here, failed remotely, or
\* the idle deadline passed)
readPump_readError(s) ==
    LET o == S[s].owner IN
    /\ S[s].rp = "read"
    /\ W' = [W EXCEPT ![o].Status = StatusError, ![o].Error = ErrRead]
    /\ S' = [S EXCEPT ![s].rp = "defer"]
    /\ UNCHANGED <<connections, nObjs, nSocks, C, frames, ret, panicked>>
    /\ Spend(IF S[S[s].rsock].open THEN 1 ELSE 0)

\* clientsMu: RLock is granted unless a writer holds or waits for the lock; the
\* writers (AddClient, RemoveClient) hold it for one step only, and a reader is
\* left holding it only while it waits in RemoveClient itself, as a writer.
CanRLock(o) == W[o].rlock = 0
CanLock(o) == W[o].rlock = 0

\* lines 446-462 and the loop back to line 428.  The clients are visited in map
\* order (any order); the writes before the first failing one deliver the frame.
\* todo: the clients not yet visited; held: the pump already holds the read lock.
Broadcast(s, todo, held, ok, bad) ==
    LET o == S[s].owner IN
    /\ ok \subseteq todo
    /\ \A c \in ok : C[c].closes = 0
    /\ Spend(0)
    /\ IF bad = 0
       THEN /\ ok = todo
            /\ C' = [c \in Clients |->
                       IF c \in ok THEN [C[c] EXCEPT !.log = Append(@, S[s].rmsg)]
                       ELSE C[c]]
            /\ W' = [W EXCEPT ![o].rlock = IF held THEN @ - 1 ELSE @]
            /\ IF W[o].conn = 0
               THEN /\ panicked' = TRUE
                    /\ S' = [S EXCEPT ![s].rp = "panic", ![s].rtodo = {}]
               ELSE /\ panicked' = panicked
                    /\ S' = [S EXCEPT ![s].rp = "read", ![s].rsock = W[o].conn,
                                      ![s].rtodo = {}]
       ELSE /\ bad \in todo \ ok
            /\ C' = [c \in Clients |->
                       IF c \in ok THEN [C[c] EXCEPT !.log = Append(@, S[s].rmsg)]
                       ELSE IF c = bad THEN [C[c] EXCEPT !.closes = @ + 1]
                       ELSE C[c]]
            /\ W' = [W EXCEPT ![o].rlock = IF held THEN @ ELSE @ + 1]
            /\ S' = [S EXCEPT ![s].rp = "remove", ![s].rclient = bad,
                              ![s].rtodo = todo \ (ok \cup {bad})]
            /\ panicked' = panicked

readPump_broadcast(s) ==
    LET o == S[s].owner IN
    /\ S[s].rp \in {"bcast", "removed"}
    /\ S[s].rp = "bcast" => CanRLock(o)
    /\ \E ok \in SUBSET Clients, bad \in {0} \cup Clients :
         Broadcast(s, IF S[s].rp = "bcast" THEN W[o].clients ELSE S[s].rtodo,
                   S[s].rp = "removed", ok, bad)
    /\ UNCHANGED <<connections, nObjs, nSocks, frames, ret>>

\* ------------------------------------------------------------ AddClient, RemoveClient
\* CentralServer.handleWebSocket up to the upgrade (part_006 lines 139-160)
Upgrade(c, id) ==
    /\ C[c].pc = "none"
    /\ id \in DOMAIN connections
    /\ C' = [C EXCEPT ![c].pc = "adding", ![c].w = connections[id]]
    /\ UNCHANGED <<connections, nObjs, W, nSocks, S, frames, ret, panicked>>

handleWebSocket_upgrade(c, id) == Upgrade(c, id) /\ Spend(1)

AddClientResetsError(c) ==
    /\ C[c].pc = "adding"
    /\ CanLock(C[c].w)
    /\ W' = [W EXCEPT ![C[c].w].clients = @ \cup {c}, ![C[c].w].Error = ""]
    /\ C' = [C EXCEPT ![c].pc = "open"]
    /\ UNCHANGED <<connections, nObjs, nSocks, S, frames, ret, panicked>>
    /\ Spend(0)

AddClient(c) ==
    /\ C[c].pc = "adding"
    /\ CanLock(C[c].w)
    /\ W' = [W EXCEPT ![C[c].w].clients = @ \cup {c}]
    /\ C' = [C EXCEPT ![c].pc = "open"]
    /\ UNCHANGED <<connections, nObjs, nSocks, S, frames, ret, panicked>>
    /\ Spend(0)

\* ws.ReadMessage fails: the client went away, or the socket was closed
handleWebSocket_readError(c) ==
    /\ C[c].pc = "open"
    /\ C' = [C EXCEPT ![c].pc = "cleanup"]
    /\ UNCHANGED <<connections, nObjs, W, nSocks, S, frames, ret, panicked>>
    /\ Spend(IF C[c].closes = 0 THEN 1 ELSE 0)

\* the frames handleWebSocket writes back to the client (part_006 lines 185, 194)
WrapperDiag(status, error) == "Error: Wrapper is " \o status \o " - " \o error
SendDiag(error) == "Error sending command: " \o error

\* The handler writes its diagnostics to the client socket from its own
\* goroutine while a read pump of the connection writes the agent's frames to the
\* same socket (part_005 line 450); nothing serialises the two writers.  When the
\* two writes overlap the socket library may let both through or detect the
\* second writer and panic in either goroutine: in the handler, where net/http
\* recovers and the deferred cleanup runs, or in the pump, where the process ends.
ConcurrentWriter(c) ==
    \E s \in 1..nSocks : S[s].rp = "bcast" /\ c \in W[S[s].owner].clients

WriteBackOutcomes(c) ==
    IF ConcurrentWriter(c) THEN {"ok", "panic_handler", "panic_pump"} ELSE {"ok"}

\* ws.WriteMessage(websocket.TextMessage, text) in the read loop of handleWebSocket
WriteBack(c, text, out) ==
    /\ C' = [C EXCEPT ![c].nread = IF C[c].pc = "open" THEN @ + 1 ELSE @,
                      ![c].diag = IF out = "panic_handler" THEN @ ELSE Append(@, text),
                      ![c].pc = IF out = "panic_handler" THEN "cleanup" ELSE "open"]
    /\ panicked' = (out = "panic_pump")

\* part_006 lines 173-188: the client sends a frame; the handler looks at the
\* status of the connection and either answers with a diagnostic and goes back
\* to reading, or goes on to SendMessage
handleWebSocket_frame(c) ==
    LET o == C[c].w IN
    /\ C[c].pc = "open"
    /\ C[c].closes = 0
    /\ IF W[o].Status # StatusConnected
       THEN \E out \in WriteBackOutcomes(c) :
                WriteBack(c, WrapperDiag(W[o].Status, W[o].Error), out)
       ELSE /\ C' = [C EXCEPT ![c].nread = @ + 1, ![c].pc = "forward"]
            /\ panicked' = panicked
    /\ UNCHANGED <<connections, nObjs, W, nSocks, S, frames, ret>>
    /\ Spend(1)

\* part_006 lines 191-197: SendMessage, and the diagnostic when it returns an error
handleWebSocket_forward(c) ==
    LET o == C[c].w IN
    /\ C[c].pc = "forward"
    /\ \E r \in SendResults(o) :
         /\ ret' = [op |-> "SendMessage", o |-> o, res |-> r]
         /\ W' = [W EXCEPT ![o].sendChan = IF r = "ok" THEN Append(@, W[o].accepted + 1)
                                          ELSE @,
                           ![o].accepted = IF r = "ok" THEN @ + 1 ELSE @]
         /\ IF r = "ok"
            THEN /\ C' = [C EXCEPT ![c].pc = "open"]
                 /\ panicked' = panicked
            ELSE \E out \in WriteBackOutcomes(c) :
                     WriteBack(c, SendDiag(SendError(r, W[o].Status)), out)
    /\ UNCHANGED <<connections, nObjs, nSocks, S, frames>>
    /\ Spend(0)

\* the goroutines standing at a call of RemoveClient: a handleWebSocket in its
\* deferred cleanup (part_006 line 168), a read pump at line 457
RemoveCallers ==
    {<<"gw", c>> : c \in {x \in Clients : C[x].pc = "cleanup"}} \cup
    {<<"rp", s>> : s \in {x \in Socks : S[x].rp = "remove"}}

CallerConn(k) == IF k[1] = "gw" THEN C[k[2]].w ELSE S[k[2]].owner
CallerClient(k) == IF k[1] = "gw" THEN k[2] ELSE S[k[2]].rclient

\* RemoveClient, and for the gateway the ws.Close() that follows it
RemoveClient(k) ==
    /\ k \in RemoveCallers
    /\ CanLock(CallerConn(k))
    /\ W' = [W EXCEPT ![CallerConn(k)].clients = @ \ {CallerClient(k)}]
    /\ IF k[1] = "gw"
       THEN /\ C' = [C EXCEPT ![k[2]].pc = "closed", ![k[2]].closes = @ + 1]
            /\ S' = S
       ELSE /\ S' = [S EXCEPT ![k[2]].rp = "removed"]
            /\ C' = C
    /\ UNCHANGED <<connections, nObjs, nSocks, frames, ret, panicked>>
    /\ Spend(0)

\* ------------------------------------------------------------ WrapperConnection.writePump
WriteOutcomes == {"ok", "fail"}

\* a write on a transport succeeds only while the transport is open and no
\* earlier write on it has failed (the write error of a transport is kept and
\* returned by every later write)
Writable(c) == c # 0 /\ S[c].open /\ ~S[c].werr

\* line 495: the pump receives the next payload from sendChan
writePump_recv(s) ==
    LET o == S[s].owner IN
    /\ S[s].wp = "select"
    /\ W[o].sendChan # <<>>
    /\ W' = [W EXCEPT ![o].sendChan = Tail(@)]
    /\ S' = [S EXCEPT ![s].wp = "write", ![s].wmsg = Head(W[o].sendChan)]
    /\ UNCHANGED <<connections, nObjs, nSocks, C, frames, ret, panicked>>
    /\ Spend(0)

writePump_sendCountsFailures(s, outcome) ==
    LET o == S[s].owner
        m == S[s].wmsg IN
    /\ S[s].wp = "write"
    /\ IF W[o].conn = 0
       THEN /\ outcome = "fail"
            /\ W' = W
            /\ S' = [S EXCEPT ![s].wp = "defer", ![s].wmsg = 0]
       ELSE IF outcome = "ok"
       THEN /\ Writable(W[o].conn)
            /\ W' = [W EXCEPT ![o].MessagesSent = @ + 1, ![o].wire = Append(@, m)]
            /\ S' = [S EXCEPT ![s].wp = "select", ![s].wmsg = 0]
       ELSE /\ W' = [W EXCEPT ![o].Error = ErrWrite, ![o].MessagesSent = @ + 1]
            /\ S' = [S EXCEPT ![s].wp = "defer", ![s].wmsg = 0,
                              ![W[o].conn].werr = TRUE]
    /\ UNCHANGED <<connections, nObjs, nSocks, C, frames, ret, panicked>>
    /\ Spend(IF outcome = "fail" /\ Writable(W[o].conn) THEN 1 ELSE 0)

\* lines 496-525: the payload is written to the transport the connection holds
writePump_send(s, outcome) ==
    LET o == S[s].owner
        m == S[s].wmsg IN
    /\ S[s].wp = "write"
    /\ IF W[o].conn = 0
       THEN /\ outcome = "fail"
            /\ W' = W
            /\ S' = [S EXCEPT ![s].wp = "defer", ![s].wmsg = 0]
       ELSE IF outcome = "ok"
       THEN /\ Writable(W[o].conn)
            /\ W' = [W EXCEPT ![o].MessagesSent = @ + 1, ![o].wire = Append(@, m)]
            /\ S' = [S EXCEPT ![s].wp = "select", ![s].wmsg = 0]
       ELSE /\ W' = [W EXCEPT ![o].Error = ErrWrite]
            /\ S' = [S EXCEPT ![s].wp = "defer", ![s].wmsg = 0,
                              ![W[o].conn].werr = TRUE]
    /\ UNCHANGED <<connections, nObjs, nSocks, C, frames, ret, panicked>>
    /\ Spend(IF outcome = "fail" /\ Writable(W[o].conn) THEN 1 ELSE 0)

\* lines 527-542: the keep-alive ticker fires
writePump_ping(s, outcome) ==
    LET o == S[s].owner IN
    /\ S[s].wp = "select"
    /\ IF outcome = "ok"
       THEN /\ Writable(W[o].conn)
            /\ S' = S
       ELSE IF W[o].conn = 0
       THEN S' = [S EXCEPT ![s].wp = "defer"]
       ELSE S' = [S EXCEPT ![s].wp = "defer", ![W[o].conn].werr = TRUE]
    /\ UNCHANGED <<connections, nObjs, W, nSocks, C, frames, ret, panicked>>
    /\ Spend(1)

\* lines 544-545
writePump_done(s) ==
    /\ S[s].wp = "select"
    /\ IsDone(S[s].owner)
    /\ S' = [S EXCEPT ![s].wp = "defer"]
    /\ UNCHANGED <<connections, nObjs, W, nSocks, C, frames, ret, panicked>>
    /\ Spend(0)

\* the deferred function, lines 469-491: when the close frame cannot be written
\* it returns before touching Status or the signal
writePump_defer(s, outcome) ==
    LET o == S[s].owner IN
    /\ S[s].wp = "defer"
    /\ IF W[o].conn # 0 /\ outcome = "fail"
       THEN /\ W' = W
            /\ S' = [S EXCEPT ![s].wp = "exited"]
       ELSE /\ outcome = "ok"
            /\ W[o].conn # 0 => Writable(W[o].conn)
            /\ S' = [CloseSock(S, W[o].conn) EXCEPT ![s].wp = "exited"]
            /\ W' = [W EXCEPT ![o] = Signal([@ EXCEPT !.Status = StatusDisconnected],
                                            ManageParked(o))]
    /\ UNCHANGED <<connections, nObjs, nSocks, C, frames, ret, panicked>>
    /\ Spend(IF outcome = "fail" /\ Writable(W[o].conn) THEN 1 ELSE 0)

\* ------------------------------------------------------------ CentralServer: AuthGate and routes
\* Header and parameter values are sequences of characters.
authKey == <<"s">>
Bearer == <<"B", "e", "a", "r", "e", "r", " ">>
Basic == <<"B", "a", "s", "i", "c", " ">>

Keys == {<<>>, authKey, <<"x">>}
AuthHeaders ==
    {<<>>, Bearer, Basic \o authKey, Bearer \o authKey \o <<"x">>}
        \cup {Bearer \o k : k \in Keys \ {<<>>}}
Routes == {"/api/wrappers", "/api/retry", "/api/serverstatus", "/ws"}
Methods == {"GET", "POST"}

\* a request: wrapper = 0 is a request without the wrapper parameter
Requests ==
    [route : Routes, method : Methods, wrapper : {0} \cup Ids,
     authorization : AuthHeaders, xkey : Keys, auth : Keys]

\* what the collaborator of a handler does: the status ping, the upgrade
Outcomes == {"ok", "fail"}

\* authHeader[7:] when the header is longer than "Bearer " and starts with it
BearerKey(h) ==
    IF Len(h) > 7 /\ SubSeq(h, 1, 7) = Bearer THEN SubSeq(h, 8, Len(h)) ELSE <<>>

SelectKeyHeaderFirst(r) ==
    IF r.xkey # <<>> THEN r.xkey
    ELSE IF BearerKey(r.authorization) # <<>> THEN BearerKey(r.authorization)
    ELSE r.auth

SelectKey(r) ==
    IF BearerKey(r.authorization) # <<>> THEN BearerKey(r.authorization)
    ELSE IF r.xkey # <<>> THEN r.xkey
    ELSE r.auth

ConstantTimeCompareNoLength(x, y) ==
    IF x # <<>> /\ y # <<>> /\ x[1] = y[1] THEN 1 ELSE 0

\* crypto/subtle: 1 iff both have the same length and the same bytes
ConstantTimeCompare(x, y) ==
    IF Len(x) = Len(y) /\ \A i \in 1..Len(x) : x[i] = y[i] THEN 1 ELSE 0

AnswerBody(st, h, b) == http' = [status |-> st, handler |-> h, body |-> b]
Answer(st, h) == AnswerBody(st, h, "")

Untouched == UNCHANGED <<connections, nObjs, W, nSocks, S, C, frames, ret, panicked>>

handleWrappers(r) ==
    IF r.method # "GET"
    THEN Answer(405, "handleWrappers") /\ Untouched
    ELSE /\ ret' = [op |-> "ListConnections", o |-> 0, res |-> "ok"]
         /\ UNCHANGED <<connections, nObjs, W, nSocks, S, C, frames, panicked>>
         /\ Answer(200, "handleWrappers")

\* the error Retry returns with each result (part_005 lines 139-152)
RetryError(res, status) ==
    CASE res = "ok" -> ""
      [] res = "already" -> "connection is already " \o status
      [] res = "closed" -> "connection is closed"
      [] res = "inprogress" -> "retry already in progress"

handleRetryAlwaysOK(r) ==
    IF r.method # "POST"
    THEN Answer(405, "handleRetry") /\ Untouched
    ELSE IF r.wrapper = 0
    THEN Answer(400, "handleRetry") /\ Untouched
    ELSE IF r.wrapper \notin DOMAIN connections
    THEN Answer(404, "handleRetry") /\ Untouched
    ELSE /\ RetryCall(connections[r.wrapper])
         /\ Answer(200, "handleRetry")

handleRetry(r) ==
    IF r.method # "POST"
    THEN Answer(405, "handleRetry") /\ Untouched
    ELSE IF r.wrapper = 0
    THEN Answer(400, "handleRetry") /\ Untouched
    ELSE IF r.wrapper \notin DOMAIN connections
    THEN Answer(404, "handleRetry") /\ Untouched
    ELSE /\ RetryCall(connections[r.wrapper])
         /\ AnswerBody(IF ret'.res = "ok" THEN 200 ELSE 500, "handleRetry",
                       RetryError(ret'.res, W[connections[r.wrapper]].Status))

handleServerStatus(r) ==
    /\ Untouched
    /\ IF r.method # "GET" THEN Answer(405, "handleServerStatus")
       ELSE IF r.wrapper = 0 THEN Answer(400, "handleServerStatus")
       ELSE IF r.wrapper \notin DOMAIN connections
       THEN Answer(404, "handleServerStatus")
       ELSE \E out \in Outcomes :
               Answer(IF out = "ok" THEN 200 ELSE 500, "handleServerStatus")

handleWebSocketAnyConnection(r) ==
    IF r.wrapper = 0
    THEN Answer(400, "handleWebSocket") /\ Untouched
    ELSE IF connections = << >>
    THEN Answer(404, "handleWebSocket") /\ Untouched
    ELSE \/ Answer(400, "handleWebSocket") /\ Untouched
         \/ /\ \E c \in NextClient, id \in DOMAIN connections : Upgrade(c, id)
            /\ Answer(101, "handleWebSocket")

\* handleWebSocket up to the upgrade; a refused upgrade is answered 400 by the
\* upgrader, an accepted one 101
handleWebSocket(r) ==
    IF r.wrapper = 0
    THEN Answer(400, "handleWebSocket") /\ Untouched
    ELSE IF r.wrapper \notin DOMAIN connections
    THEN Answer(404, "handleWebSocket") /\ Untouched
    ELSE \/ Answer(400, "handleWebSocket") /\ Untouched
         \/ /\ \E c \in NextClient : Upgrade(c, r.wrapper)
            /\ Answer(101, "handleWebSocket")

\* the routes registered by Start
Handler(r) ==
    CASE r.route = "/api/wrappers" -> handleWrappers(r)
      [] r.route = "/api/retry" -> handleRetry(r)
      [] r.route = "/api/serverstatus" -> handleServerStatus(r)
      [] r.route = "/ws" -> handleWebSocket(r)

authMiddleware(r) ==
    IF SelectKey(r) = <<>>
    THEN Answer(401, "none") /\ Untouched
    ELSE IF ConstantTimeCompare(SelectKey(r), authKey) # 1
    THEN Answer(401, "none") /\ Untouched
    ELSE Handler(r)

ServeHTTP(r) == Charge(1) /\ req' = r /\ authMiddleware(r)

\* ------------------------------------------------------------ specification
Next ==
    \/ \E id \in CallIds : Connect(id)
    \/ DisconnectAll
    \/ \E o \in Created : connect_begin(o)
    \/ \E o \in Created, d \in DialOutcomes : connect_dial(o, d)
    \/ \E o \in Created : manage_failed(o)
    \/ \E o \in Created : manage_wake(o)
    \/ \E o \in Created : manage_connected(o)
    \/ \E o \in Created : manage_reconnect(o)
    \/ \E o \in Created : Retry(o)
    \/ \E o \in Created : SendMessage(o, W[o].accepted + 1)
    \/ \E s \in 1..nSocks : readPump_start(s)
    \/ \E s \in 1..nSocks : readPump_message(s)
    \/ \E s \in 1..nSocks : readPump_readError(s)
    \/ \E s \in 1..nSocks : readPump_broadcast(s)
    \/ \E s \in 1..nSocks : readPump_defer(s)
    \/ \E c \in NextClient, id \in Ids : handleWebSocket_upgrade(c, id)
    \/ \E c \in Clients : AddClient(c)
    \/ \E c \in Clients : handleWebSocket_readError(c)
    \/ \E k \in RemoveCallers : RemoveClient(k)
    \/ \E s \in 1..nSocks : writePump_recv(s)
    \/ \E s \in 1..nSocks, r \in WriteOutcomes : writePump_send(s, r)
    \/ \E s \in 1..nSocks, r \in WriteOutcomes : writePump_ping(s, r)
    \/ \E s \in 1..nSocks : writePump_done(s)
    \/ \E s \in 1..nSocks, r \in WriteOutcomes : writePump_defer(s, r)

Spec == Init /\ [][Next]_vars

SpecBackoff == InitBackoff /\ [][Next]_vars

SpecRegistry == InitRegistry /\ [][Next]_vars

SpecFifo == InitFifo /\ [][Next]_vars

\* the inbound direction alone: the supervisor, the read pumps, a manual retry
\* and the dashboard sockets
NextInbound ==
    \/ \E id \in CallIds : Connect(id)
    \/ \E o \in Created : connect_begin(o)
    \/ \E o \in Created, d \in DialOutcomes : connect_dial(o, d)
    \/ \E o \in Created : manage_connected(o)
    \/ \E o \in Created : manage_reconnect(o)
    \/ \E o \in Created : Retry(o)
    \/ \E s \in 1..nSocks : readPump_start(s)
    \/ \E s \in 1..nSocks : readPump_message(s)
    \/ \E s \in 1..nSocks : readPump_readError(s)
    \/ \E s \in 1..nSocks : readPump_broadcast(s)
    \/ \E s \in 1..nSocks : readPump_defer(s)
    \/ \E c \in NextClient, id \in Ids : handleWebSocket_upgrade(c, id)
    \/ \E c \in Clients : AddClient(c)

SpecInbound == InitInbound /\ [][NextInbound]_vars

\* the same steps with two registered connections
SpecContain == InitContain /\ [][NextInbound]_vars

\* The gateway in front of the registry.  The gate reads the request and the
\* configured secret only, so the connections' goroutines are left unscheduled.
NextGate ==
    \/ \E id \in CallIds : Connect(id)
    \/ \E r \in Requests : ServeHTTP(r)
    \/ \E c \in Clients : AddClient(c)

\* the relay: the supervisor up to the first transport, the read pump and the
\* dashboard sockets with the frames they send
NextRelay ==
    \/ \E id \in CallIds : Connect(id)
    \/ \E o \in Created : connect_begin(o)
    \/ \E o \in Created, d \in DialOutcomes : connect_dial(o, d)
    \/ \E o \in Created : manage_failed(o)
    \/ \E o \in Created : manage_connected(o)
    \/ \E o \in Created : manage_reconnect(o)
    \/ \E s \in 1..nSocks : readPump_start(s)
    \/ \E s \in 1..nSocks : readPump_message(s)
    \/ \E s \in 1..nSocks : readPump_readError(s)
    \/ \E s \in 1..nSocks : readPump_broadcast(s)
    \/ \E s \in 1..nSocks : readPump_defer(s)
    \/ \E s \in 1..nSocks : writePump_recv(s)
    \/ \E c \in NextClient, id \in Ids : handleWebSocket_upgrade(c, id)
    \/ \E c \in Clients : AddClient(c)
    \/ \E c \in Clients : handleWebSocket_frame(c)
    \/ \E c \in Clients : handleWebSocket_forward(c)
    \/ \E c \in Clients : handleWebSocket_readError(c)
    \/ \E k \in RemoveCallers : RemoveClient(k)

SpecRelay == InitRelay /\ [][NextRelay]_vars

\* the requests that pass the gate with the key in the Authorization header
Authenticated ==
    [route : Routes, method : Methods, wrapper : {0} \cup Ids,
     authorization : {Bearer \o authKey}, xkey : {<<>>}, auth : {<<>>}]

\* the HTTP interface next to a running connection: the supervisor up to the
\* first transport, the read pump, shutdown, and authenticated requests
NextApi ==
    \/ \E id \in CallIds : Connect(id)
    \/ DisconnectAll
    \/ \E o \in Created : connect_begin(o)
    \/ \E o \in Created, d \in DialOutcomes : connect_dial(o, d)
    \/ \E o \in Created : manage_failed(o)
    \/ \E o \in Created : manage_connected(o)
    \/ \E o \in Created : manage_reconnect(o)
    \/ \E s \in 1..nSocks : readPump_start(s)
    \/ \E s \in 1..nSocks : readPump_readError(s)
    \/ \E s \in 1..nSocks : readPump_defer(s)
    \/ \E r \in Authenticated : ServeHTTP(r)
    \/ \E c \in Clients : AddClient(c)

SpecApi == InitApi /\ [][NextApi]_vars

\* the registry's interface and the connections' own dialling
NextLookup ==
    \/ \E id \in CallIds : Connect(id)
    \/ DisconnectAll
    \/ \E id \in Ids : GetConnection(id)
    \/ ListConnections
    \/ \E o \in Created : connect_begin(o)
    \/ \E o \in Created, d \in DialOutcomes : connect_dial(o, d)

SpecLookup == InitLookup /\ [][NextLookup]_vars

SpecGate == InitGate /\ [][NextGate]_vars

\* ------------------------------------------------------------ single-agent Server (part_007)
\* the steps of the single-agent server leave the relay engine alone
ServerOnly ==
    UNCHANGED <<connections, nObjs, W, nSocks, S, C, frames, ret, panicked, budget,
                fails, lim, req, http, list>>

Conns == 1..MaxConns

\* sockets are interchangeable: the next one to attach is the lowest unused
NextConn ==
    {k \in Conns : server.conn[k].pc = "none" /\
                   \A x \in 1..(k - 1) : server.conn[x].pc # "none"}

\* lines 98-100: s.outputBuffer[len(s.outputBuffer)-1000:] when longer than 1000
KeepLast(buf, n) ==
    IF Len(buf) > n THEN SubSeq(buf, Len(buf) - n + 1, Len(buf)) ELSE buf

\* handleWebSocket, lines 52-62: upgrade, then register under connLock.Lock
Server_handleWebSocket_register(k) ==
    /\ server.pc # "panic"
    /\ k \in NextConn
    /\ server.rlock = 0
    /\ server' = [server EXCEPT !.connections = @ \cup {k},
                                !.conn[k].pc = "registered"]
    /\ ServerOnly

\* line 72: connLock.RLock, the range over outputBuffer starts
Server_handleWebSocket_replayLock(k) ==
    /\ server.pc # "panic"
    /\ server.conn[k].pc = "registered"
    /\ server' = [server EXCEPT !.rlock = @ + 1, !.conn[k].pc = "replay",
                                !.conn[k].idx = 1]
    /\ ServerOnly

\* line 74: conn.WriteMessage of the next buffered line is entered
Server_handleWebSocket_replayWrite(k) ==
    /\ server.pc # "panic"
    /\ server.conn[k].pc = "replay"
    /\ server.conn[k].writing = 0
    /\ server.conn[k].idx <= Len(server.outputBuffer)
    /\ server' = [server EXCEPT
                     !.conn[k].writing = server.outputBuffer[server.conn[k].idx]]
    /\ ServerOnly

\* lines 74-79: the write returns; on an error RUnlock and return
Server_handleWebSocket_replayWritten(k, outcome) ==
    /\ server.pc # "panic"
    /\ server.conn[k].pc = "replay"
    /\ server.conn[k].writing # 0
    /\ IF outcome = "ok"
       THEN /\ ~server.conn[k].closed
            /\ server' = [server EXCEPT
                             !.conn[k].log = Append(@, server.conn[k].writing),
                             !.conn[k].writing = 0,
                             !.conn[k].idx = @ + 1]
       ELSE /\ server.conn[k].closed \/ server.wfails > 0
            /\ server' = [server EXCEPT
                             !.wfails = IF server.conn[k].closed THEN @ ELSE @ - 1,
                             !.conn[k].writing = 0,
                             !.rlock = @ - 1,
                             !.conn[k].pc = "cleanup"]
    /\ ServerOnly

\* line 80: the buffer has been sent, RUnlock; the read loop of lines 83-89
Server_handleWebSocket_replayDone(k) ==
    /\ server.pc # "panic"
    /\ server.conn[k].pc = "replay"
    /\ server.conn[k].writing = 0
    /\ server.conn[k].idx > Len(server.outputBuffer)
    /\ server' = [server EXCEPT !.rlock = @ - 1, !.conn[k].pc = "open"]
    /\ ServerOnly

\* lines 84-87: ReadMessage fails (the client left, or the socket was closed)
Server_handleWebSocket_readError(k) ==
    /\ server.pc # "panic"
    /\ server.conn[k].pc = "open"
    /\ server' = [server EXCEPT !.conn[k].pc = "cleanup"]
    /\ ServerOnly

\* the deferred functions, lines 65-69 and 57: delete under Lock, conn.Close
Server_handleWebSocket_defer(k) ==
    /\ server.pc # "panic"
    /\ server.conn[k].pc = "cleanup"
    /\ server.rlock = 0
    /\ server' = [server EXCEPT !.connections = @ \ {k},
                                !.conn[k].pc = "closed",
                                !.conn[k].closed = TRUE]
    /\ ServerOnly

\* handleRunnerOutput, lines 93-101: the next line of the runner is appended to
\* the buffer under connLock.Lock and the buffer is cut to its last lines
handleRunnerOutput_store ==
    /\ server.pc = "recv"
    /\ server.produced < MaxLines
    /\ server.rlock = 0
    /\ server' = [server EXCEPT
                     !.produced = @ + 1,
                     !.line = server.produced + 1,
                     !.outputBuffer = KeepLast(Append(@, server.produced + 1), BufCap),
                     !.pc = "rlock"]
    /\ ServerOnly

\* lines 104-105: connLock.RLock, the range over the connections starts
handleRunnerOutput_rlock ==
    /\ server.pc = "rlock"
    /\ server' = [server EXCEPT !.rlock = @ + 1, !.pc = "bcast",
                                !.todo = server.connections]
    /\ ServerOnly

\* Both the replay of handleWebSocket and this broadcast hold connLock in read
\* mode, so nothing keeps the two from writing to one socket at once.  When
\* the broadcast writes to a socket whose replay is inside WriteMessage the
\* socket library may let both writes through or detect the second writer and
\* panic; the panic is in this goroutine, which nothing recovers.
BroadcastOutcomes(k) ==
    IF server.conn[k].writing # 0 THEN {"ok", "fail", "panic"} ELSE {"ok", "fail"}

\* lines 105-111: the line is written to one connection; on an error the
\* connection is closed and deleted from the map
handleRunnerOutput_write(k, outcome) ==
    /\ server.pc = "bcast"
    /\ k \in server.todo
    /\ outcome \in BroadcastOutcomes(k)
    /\ CASE outcome = "ok" ->
              /\ ~server.conn[k].closed
              /\ server' = [server EXCEPT
                               !.conn[k].log = Append(@, server.line),
                               !.overlap = @ \/ server.conn[k].writing # 0,
                               !.todo = @ \ {k}]
         [] outcome = "fail" ->
              /\ server.conn[k].closed \/ server.wfails > 0
              /\ server' = [server EXCEPT
                               !.wfails = IF server.conn[k].closed THEN @ ELSE @ - 1,
                               !.conn[k].closed = TRUE,
                               !.connections = @ \ {k},
                               !.overlap = @ \/ server.conn[k].writing # 0,
                               !.todo = @ \ {k}]
         [] outcome = "panic" ->
              server' = [server EXCEPT !.pc = "panic", !.overlap = TRUE]
    /\ ServerOnly

\* line 112: every connection has been visited, RUnlock, back to the range
handleRunnerOutput_done ==
    /\ server.pc = "bcast"
    /\ server.todo = {}
    /\ server' = [server EXCEPT !.rlock = @ - 1, !.pc = "recv"]
    /\ ServerOnly

InitServer ==
    InitWith([events |-> 0, fails |-> 0, objs |-> 0, ids |-> 0, socks |-> 0])

NextServer ==
    \/ \E k \in Conns : Server_handleWebSocket_register(k)
    \/ \E k \in Conns : Server_handleWebSocket_replayLock(k)
    \/ \E k \in Conns : Server_handleWebSocket_replayWrite(k)
    \/ \E k \in Conns, r \in WriteOutcomes : Server_handleWebSocket_replayWritten(k, r)
    \/ \E k \in Conns : Server_handleWebSocket_replayDone(k)
    \/ \E k \in Conns : Server_handleWebSocket_readError(k)
    \/ \E k \in Conns : Server_handleWebSocket_defer(k)
    \/ handleRunnerOutput_store
    \/ handleRunnerOutput_rlock
    \/ \E k \in Conns, r \in {"ok", "fail", "panic"} : handleRunnerOutput_write(k, r)
    \/ handleRunnerOutput_done

SpecServer == InitServer /\ [][NextServer]_vars

\* ------------------------------------------------------------ claims

\* C1: when the write to one subscriber fails, that subscriber is removed and the
\* read pump goes on (it does not block): a read pump standing at its call of
\* RemoveClient can always take clientsMu.
C1_BroadcastIsolation ==
    \A s \in 1..nSocks : S[s].rp = "remove" => CanLock(S[s].owner)

\* C2: a SendMessage on a connected connection that has not shut down succeeds
\* exactly when the queue holds fewer than SendCap payloads, and then appends
\* the payload; otherwise it is rejected as queue-full and the queue is
\* unchanged; the queue never exceeds SendCap, and while nothing has been taken
\* from it, it holds the accepted payloads in the order of submission.
C2_Step ==
    \A o \in Created :
        (SendMessage(o, W[o].accepted + 1) /\ W[o].Status = StatusConnected
           /\ ~IsDone(o))
        => IF Len(W[o].sendChan) < SendCap
           THEN /\ ret'.res = "ok"
                /\ W'[o].sendChan = Append(W[o].sendChan, W[o].accepted + 1)
           ELSE /\ ret'.res = "full"
                /\ W'[o].sendChan = W[o].sendChan

C2_Inv ==
    \A o \in Created :
        /\ Len(W[o].sendChan) <= SendCap
        /\ Len(W[o].sendChan) = W[o].accepted =>
              W[o].sendChan = [i \in 1..W[o].accepted |-> i]

SumTo(k) == (k * (k + 1)) \div 2

C3_Inv ==
    \A o \in Created :
        W[o].Reconnections = 0 =>
            /\ W[o].fdials <= maxReconnectAttempts + 1
            /\ W[o].pc = "sleep" =>
                  /\ W[o].Status = StatusReconnecting
                  /\ W[o].fdials \in 1..maxReconnectAttempts
                  /\ SleepTime(W[o].reconnectAttempts) = reconnectDelay * W[o].fdials
                  /\ W[o].slept = reconnectDelay * SumTo(W[o].fdials)
            /\ W[o].pc = "wait280" =>
                  /\ W[o].Status = StatusError
                  /\ W[o].Error = ErrMaxAttempts
                  /\ W[o].fdials = 1 + maxReconnectAttempts
                  /\ W[o].slept = 75

C3_Step ==
    \A o \in Created :
        (W[o].Reconnections = 0 /\ W[o].pc = "wait280" /\ W'[o].pc # "wait280") =>
            \/ /\ W'[o].pc = "connect"
               /\ ret' = [op |-> "Retry", o |-> o, res |-> "ok"]
            \/ /\ W'[o].pc = "returned"
               /\ W'[o].done > 0

C3_CappedLinearBackoff == []C3_Inv /\ [][C3_Step]_vars

C3_Witness ==
    \E o \in Created :
        /\ W[o].pc = "wait280"
        /\ W[o].fdials = 6
        /\ W[o].slept = 75
        /\ W[o].Reconnections = 0
        /\ ~IsDone(o)

\* C4: once manage has given up on an unauthorized dial, the connection keeps
\* status error with the authentication-failed reason, and the failure has not
\* been counted as an automatic retry.
C4_AuthFailureSticks ==
    \A o \in Created :
        (W[o].pc = "authfailed" /\ ~IsDone(o)) =>
            /\ W[o].Status = StatusError
            /\ W[o].Error = StatusAuthFailed

\* C5: a Retry() called in the authentication-failed error state before
\* shutdown is accepted and makes manage dial again.
C5_RetryAfterAuthFailure ==
    [][\A o \in Created :
          (Retry(o) /\ ~IsDone(o) /\ W[o].Status = StatusError
             /\ W[o].Error = StatusAuthFailed /\ W[o].pc = "authfailed")
          => (ret'.res = "ok" /\ W'[o].pc = "connect")]_vars

\* C6: a Retry() called before shutdown with a status other than connected and
\* connecting succeeds, sets status connecting and wakes manage with the
\* automatic-retry counter at zero.
C6_RetryAccepted ==
    [][\A o \in Created :
          (Retry(o) /\ ~IsDone(o)
             /\ W[o].Status \notin {StatusConnected, StatusConnecting})
          => /\ ret'.res = "ok"
             /\ W'[o].Status = StatusConnecting
             /\ W'[o].pc \in {"connect", "got304"}
             /\ W'[o].reconnectAttempts = 0]_vars

\* C7 as stated: Retry() is rejected without any change when status is
\* connected or connecting, and is rejected with the connection-closed error
\* whenever done has fired.
C7_Original ==
    [][\A o \in Created :
          Retry(o) =>
            /\ W[o].Status \in {StatusConnected, StatusConnecting} =>
                  (ret'.res = "already" /\ W' = W /\ S' = S)
            /\ IsDone(o) => (ret'.res = "closed" /\ W' = W /\ S' = S)]_vars

\* C7 as amended: Retry() is rejected with the already-connected error and
\* without any change when status is connected or connecting; when done has
\* fired and the status is neither, it is rejected with the connection-closed
\* error and without any change; in both cases manage stays where it is.
C7_RetryRejected ==
    [][\A o \in Created :
          Retry(o) =>
            /\ W[o].Status \in {StatusConnected, StatusConnecting} =>
                  (ret'.res = "already" /\ W' = W /\ S' = S)
            /\ (IsDone(o) /\ W[o].Status \notin {StatusConnected, StatusConnecting})
                  => (ret'.res = "closed" /\ W' = W /\ S' = S)]_vars

C7_Witness ==
    \E o \in Created :
        /\ ret = [op |-> "Retry", o |-> o, res |-> "closed"]
        /\ IsDone(o)
        /\ W[o].Status = StatusError

\* C8: Connect with an id that is already registered returns the
\* duplicate-identifier error, creates no connection object (so starts no
\* manage loop) and leaves the registry and every connection as they were; the
\* registry maps each id to one connection carrying that id, and the
\* connections that are not shut down are exactly the registered ones, one per
\* id.
C8_Inv ==
    /\ \A id \in DOMAIN connections :
          connections[id] \in Created /\ W[connections[id]].ID = id
    /\ \A o \in Created : (W[o].done = 0) <=> (o \in Registered)
    /\ \A o1, o2 \in Created :
          (W[o1].done = 0 /\ W[o2].done = 0 /\ W[o1].ID = W[o2].ID) => o1 = o2

C8_Step ==
    \A id \in Ids :
        (Connect(id) /\ id \in DOMAIN connections) =>
            /\ ret'.res = "exists"
            /\ UNCHANGED <<connections, nObjs, W, S>>

C8_RegistryUnique == []C8_Inv /\ [][C8_Step]_vars

C8_Witness ==
    /\ ret = [op |-> "Connect", o |-> 0, res |-> "exists"]
    /\ Cardinality(DOMAIN connections) = 2
    /\ nObjs = 2

\* C9: DisconnectAll can always be taken, whatever the registered connections
\* are doing; it leaves the registry empty and closes the done signal of each
\* registered connection, and no done signal is ever closed twice.
C9_Inv ==
    /\ \A o \in Created : W[o].done <= 1
    /\ (budget >= 1 /\ ~panicked) => ENABLED DisconnectAll

C9_Step ==
    DisconnectAll =>
        /\ connections' = << >>
        /\ \A o \in Created :
              W'[o].done = IF o \in Registered THEN 1 ELSE W[o].done

C10_NoDialAfterShutdown ==
    [][\A o \in Created :
          IsDone(o) => ~(W[o].pc = "connect" /\ W'[o].pc = "dial")]_vars


\* The three credential channels of a request, highest priority first.
Channels(r) == <<BearerKey(r.authorization), r.xkey, r.auth>>

FirstNonEmpty(ch) ==
    IF \A i \in 1..Len(ch) : ch[i] = <<>> THEN <<>>
    ELSE ch[CHOOSE i \in 1..Len(ch) :
                ch[i] # <<>> /\ \A j \in 1..(i - 1) : ch[j] = <<>>]

OneChannel(r) ==
    \E i \in 1..3 : /\ Channels(r)[i] = authKey
                    /\ \A j \in (1..3) \ {i} : Channels(r)[j] = <<>>

Variants(r) ==
    {[r EXCEPT !.authorization = Bearer \o authKey, !.xkey = <<>>, !.auth = <<>>],
     [r EXCEPT !.authorization = <<>>, !.xkey = authKey, !.auth = <<>>],
     [r EXCEPT !.authorization = <<>>, !.xkey = <<>>, !.auth = authKey]}

RouteHandler(route) ==
    CASE route = "/api/wrappers" -> "handleWrappers"
      [] route = "/api/retry" -> "handleRetry"
      [] route = "/api/serverstatus" -> "handleServerStatus"
      [] route = "/ws" -> "handleWebSocket"

Served == req.route # "none"

\* C11: a request to a protected route with no credential in any channel, or
\* whose selected credential is not the configured secret, is answered 401 and
\* its handler is not invoked (registry, connections, subscribers and the last
\* call are as before); a request with the secret in one channel and nothing in
\* the other two reaches the handler of its route, and the step taken is the
\* same whichever of the three channels carries the secret.
C11_Inv ==
    Served =>
        /\ FirstNonEmpty(Channels(req)) # authKey =>
              (http.status = 401 /\ http.handler = "none")
        /\ OneChannel(req) =>
              (http.status # 401 /\ http.handler = RouteHandler(req.route))

C11_Step ==
    (req' # req \/ http' # http) =>
        /\ http'.handler = "none" => Untouched
        /\ OneChannel(req') => \A q \in Variants(req') : authMiddleware(q)

C11_AuthGate == []C11_Inv /\ [][C11_Step]_vars

C11_Witness ==
    /\ req.route = "/ws"
    /\ req.authorization = <<>> /\ req.xkey = <<>> /\ req.auth = authKey
    /\ http.status = 101 /\ http.handler = "handleWebSocket"
    /\ \E c \in Clients : C[c].pc = "adding"

\* C12: the credential compared with the secret is the first non-empty one in
\* the order Bearer, X-Auth-Key, auth: a non-empty Bearer key decides alone, an
\* X-Auth-Key decides when the Bearer key is empty, the auth parameter decides
\* when both are empty.
C12_CredentialOrder ==
    Served =>
        LET b == BearerKey(req.authorization)
            admitted == http.handler # "none" /\ http.status # 401
        IN  /\ b # <<>> => (admitted <=> b = authKey)
            /\ (b = <<>> /\ req.xkey # <<>>) => (admitted <=> req.xkey = authKey)
            /\ (b = <<>> /\ req.xkey = <<>>) => (admitted <=> req.auth = authKey)

C12_Witness ==
    /\ Served
    /\ BearerKey(req.authorization) = <<"x">>
    /\ req.xkey = authKey /\ req.auth = authKey
    /\ http.status = 401 /\ http.handler = "none"


\* C13: SendMessage never waits; called while status is not connected it
\* returns the not-connected error and leaves the outbound queue and the rest
\* of the connection as they were; the errors for not connected, shut down and
\* queue full are three different texts, whatever the status.
C13_Inv ==
    /\ \A o \in Created :
          (budget >= 1 /\ ~panicked) => ENABLED SendMessage(o, W[o].accepted + 1)
    /\ \A st \in {StatusDisconnected, StatusConnecting, StatusError,
                  StatusReconnecting} :
          Cardinality({SendError("notconnected", st), SendError("closed", st),
                       SendError("full", st), SendError("ok", st)}) = 4

C13_Step ==
    \A o \in Created :
        (SendMessage(o, W[o].accepted + 1) /\ W[o].Status # StatusConnected)
        => /\ ret'.res = "notconnected"
           /\ W' = W

C13_SendRejected == []C13_Inv /\ [][C13_Step]_vars

C13_Witness ==
    \E o \in Created :
        /\ ret = [op |-> "SendMessage", o |-> o, res |-> "notconnected"]
        /\ W[o].Status = StatusReconnecting
        /\ W[o].sendChan = <<>>

\* C14: a SendMessage on a connection whose done signal has fired is rejected
\* and adds nothing to the outbound queue.
C14_NoSendAfterShutdown ==
    [][\A o \in Created :
          (SendMessage(o, W[o].accepted + 1) /\ IsDone(o))
          => (ret'.res # "ok" /\ W'[o].sendChan = W[o].sendChan)]_vars


\* C15: every connection has at most one transport open, and an open transport
\* is the one the connection holds; when a dial is made the connection holds no
\* transport and none of its earlier transports is open.
OpenSocks(o) == {s \in 1..nSocks : S[s].owner = o /\ S[s].open}

C15_Inv ==
    \A o \in Created :
        /\ Cardinality(OpenSocks(o)) <= 1
        /\ OpenSocks(o) \subseteq {W[o].conn}
        /\ W[o].pc = "dial" => (W[o].conn = 0 /\ OpenSocks(o) = {})

C15_Step ==
    \A o \in Created :
        nSocks' # nSocks /\ W'[o].conn # W[o].conn =>
            (OpenSocks(o) = {} /\ W'[o].conn = nSocks')

C15_SingleTransport == []C15_Inv /\ [][C15_Step]_vars

C15_Witness ==
    \E o \in Created :
        /\ nSocks = 2
        /\ S[1].owner = o /\ ~S[1].open
        /\ S[2].owner = o /\ S[2].open
        /\ W[o].conn = 2


\* C16: a connection that has not shut down is never left waiting as connected
\* on a transport whose read pump has failed and gone while the write pump has
\* seen no failure: manage has received the read pump's signal or is on its
\* way to a dial.
C16_ReadFailureReconnects ==
    \A o \in Created :
        ~ /\ ~IsDone(o)
          /\ W[o].pc = "wait304"
          /\ W[o].Status = StatusConnected
          /\ W[o].conn # 0
          /\ ~S[W[o].conn].open
          /\ S[W[o].conn].rp = "exited"
          /\ S[W[o].conn].wp = "select"


\* C17: once the write pump of the held transport has stopped on a write
\* failure (the connection has not shut down), the status is no longer
\* connected, the transport is closed and manage is no longer waiting for a
\* signal.
C17_WriteFailureReconnects ==
    \A o \in Created :
        (~IsDone(o) /\ W[o].conn # 0 /\ S[W[o].conn].wp = "exited") =>
            /\ W[o].Status # StatusConnected
            /\ ~S[W[o].conn].open
            /\ W[o].pc # "wait304"


\* C18: the payloads written to the remote agent of a connection appear in the
\* order in which SendMessage accepted them (payloads are numbered in that
\* order).
C18_OutboundFifo ==
    \A o \in Created :
        \A i, j \in 1..Len(W[o].wire) : i < j => W[o].wire[i] < W[o].wire[j]

\* C19: every attached dashboard client receives the frames of the remote agent in
\* the order the read pump received them, and no frame twice: the frames are
\* numbered in the order they were read, so each client's log is strictly
\* increasing.
C19_InboundOrder ==
    \A c \in Clients :
        \A i, j \in 1..Len(C[c].log) : i < j => C[c].log[i] < C[c].log[j]

\* what handleWebSocket must leave alone when it answers a frame with a
\* diagnostic: the socket is neither closed nor removed from the subscribers
StaysAttached(c) ==
    /\ C'[c].closes = C[c].closes
    /\ C'[c].pc = "open"
    /\ (c \in W'[C[c].w].clients) = (c \in W[C[c].w].clients)

C20_Step ==
    \A c \in Clients :
        LET o == C[c].w IN
        /\ (C'[c].nread # C[c].nread /\ W[o].Status # StatusConnected) =>
               /\ W'[o].sendChan = W[o].sendChan
               /\ C'[c].diag = Append(C[c].diag, WrapperDiag(W[o].Status, W[o].Error))
               /\ StaysAttached(c)
        /\ (C'[c].nread # C[c].nread /\ W[o].Status = StatusConnected) =>
               /\ C'[c].pc = "forward"
               /\ C'[c].diag = C[c].diag
        /\ (C[c].pc = "forward" /\ C'[c].pc # "forward") =>
               /\ ret'.op = "SendMessage"
               /\ ret'.res \in SendResults(o)
               /\ IF ret'.res = "ok"
                  THEN /\ W'[o].sendChan = Append(W[o].sendChan, W[o].accepted + 1)
                       /\ C'[c].diag = C[c].diag
                  ELSE /\ W'[o].sendChan = W[o].sendChan
                       /\ C'[c].diag =
                            Append(C[c].diag, SendDiag(SendError(ret'.res, W[o].Status)))
               /\ StaysAttached(c)

\* C20: for every frame a dashboard client sends, a connection that is not
\* connected gets nothing enqueued and the client gets a diagnostic naming the
\* status and error; otherwise the frame goes to SendMessage and a rejection is
\* answered with a diagnostic; in both error cases the client socket stays open
\* and stays a subscriber.
C20_RelayForwarding == [][C20_Step]_vars

\* C21: a subscriber whose teardown has started (its socket was closed by the
\* read pump after a failed write, or its handler is in the deferred cleanup) is
\* removed from the subscriber set: the handler's cleanup, which removes the
\* subscriber and closes the socket, can always take clientsMu.
C21_TeardownOnce ==
    \A c \in Clients : C[c].pc = "cleanup" => CanLock(C[c].w)

\* a step of connection o's own supervisor, of a manual retry of o, or of one of
\* the pumps started for o
OwnStep(o) ==
    \/ connect_begin(o)
    \/ \E d \in DialOutcomes : connect_dial(o, d)
    \/ manage_failed(o)
    \/ manage_wake(o)
    \/ manage_connected(o)
    \/ manage_reconnect(o)
    \/ Retry(o)
    \/ \E s \in 1..nSocks :
         /\ S[s].owner = o
         /\ \/ readPump_start(s)
            \/ readPump_message(s)
            \/ readPump_readError(s)
            \/ readPump_broadcast(s)
            \/ readPump_defer(s)
            \/ writePump_recv(s)
            \/ \E r \in WriteOutcomes :
                 writePump_send(s, r) \/ writePump_ping(s, r) \/ writePump_defer(s, r)

\* every other connection keeps its fields, its transport and the process it
\* runs in, and the registry keeps its mapping
Contained(o) ==
    /\ connections' = connections
    /\ \A p \in Created \ {o} :
         /\ W'[p] = W[p]
         /\ \A s \in 1..nSocks : S[s].owner = p => S'[s] = S[s]
         /\ ~panicked'

\* C22: dial failures, read and write failures, backoff and manual retries of one
\* connection leave every other connection (status, error text, statistics,
\* queue, subscriber set, transport) and the registry mapping unchanged.
C22_FailureContainment ==
    [][\A o \in Created : OwnStep(o) => Contained(o)]_vars

C23_Step ==
    /\ \A c \in Clients :
         AddClient(c) =>
            /\ W' = [W EXCEPT ![C[c].w].clients = @ \cup {c}]
            /\ S' = S
    /\ \A k \in RemoveCallers :
         RemoveClient(k) =>
            /\ W' = [W EXCEPT ![CallerConn(k)].clients = @ \ {CallerClient(k)}]
            /\ \A s \in Socks : S'[s].open = S[s].open /\ S'[s].owner = S[s].owner
    /\ \A c \in Clients :
         handleWebSocket_readError(c) => W' = W /\ S' = S

\* C23: AddClient and RemoveClient insert or delete that one socket in the
\* subscriber set and leave the connection's status, error text, statistics,
\* queue and transport unchanged; a subscriber's disconnect changes nothing in
\* the connection.
C23_SubscriberOpsPure == [][C23_Step]_vars

\* a subscriber was added and removed again while the connection, which had
\* already lost a transport, shows an error text
C23_Witness ==
    \E c \in Clients :
        /\ C[c].pc = "closed"
        /\ c \notin W[C[c].w].clients
        /\ W[C[c].w].Error # ""

C24_Step ==
    \A r \in Authenticated :
        (r.route = "/api/retry" /\ r.method = "POST" /\ ServeHTTP(r)) =>
            IF r.wrapper = 0
            THEN http'.status = 400 /\ ret' = ret /\ W' = W
            ELSE IF r.wrapper \notin DOMAIN connections
            THEN http'.status = 404 /\ ret' = ret /\ W' = W
            ELSE LET o == connections[r.wrapper] IN
                 /\ ret'.op = "Retry" /\ ret'.o = o
                 /\ http'.status \in {200, 500}
                 /\ http'.status = 200 <=> ret'.res = "ok"
                 /\ http'.status = 200 <=>
                       (W'[o].Status = StatusConnecting /\ W'[o].pc # W[o].pc)
                 /\ http'.body = RetryError(ret'.res, W[o].Status)
                 /\ http'.status = 500 => (http'.body # "" /\ W' = W)

\* C24: an authenticated POST /api/retry answers 400 when the wrapper parameter
\* is missing, 404 when the id is not registered, 500 with Retry()'s reason when
\* Retry() returns an error and 200 exactly when Retry() was accepted; Retry()
\* is called only in the last two cases.
C24_RetryEndpoint == [][C24_Step]_vars

\* a retry request was accepted: answered 200, the supervisor has the signal
C24_Witness ==
    /\ req.route = "/api/retry"
    /\ http.status = 200
    /\ ret.op = "Retry"
    /\ ret.res = "ok"
    /\ W[ret.o].pc = "got304"

\* the transports opened for a connection so far: one per successful dial
Transports(o) == {s \in 1..nSocks : S[s].owner = o}

\* C25 as stated: the reconnections statistic equals the number of completed
\* dial attempts, failed ones included.
C25_Original ==
    \A o \in Created : W[o].Reconnections = W[o].dials

\* C25 as amended: the reconnections statistic equals the number of successful
\* dial attempts (one per transport opened, the first included); a failed dial
\* leaves it unchanged.
C25_Reconnections ==
    \A o \in Created :
        /\ W[o].Reconnections = Cardinality(Transports(o))
        /\ W[o].Reconnections <= W[o].dials

\* a connection with a failed and a successful dial behind it
C25_Witness ==
    \E o \in Created : W[o].dials = 2 /\ W[o].Reconnections = 1

\* C26: once manage has recorded a successful dial and waits for the transport
\* to fail, a connection whose status is connected has an empty error text.
C26_ErrorCleared ==
    \A o \in Created :
        (W[o].pc = "wait304" /\ W[o].Status = StatusConnected) => W[o].Error = ""

C27_Step ==
    /\ \A r \in Authenticated :
         (r.route = "/ws" /\ ServeHTTP(r)) =>
            /\ W' = W
            /\ IF r.wrapper = 0
               THEN http'.status = 400 /\ C' = C
               ELSE IF r.wrapper \notin DOMAIN connections
               THEN http'.status = 404 /\ C' = C
               ELSE \/ http'.status = 400 /\ C' = C
                    \/ /\ http'.status = 101
                       /\ \E c \in Clients :
                            /\ C[c].pc = "none"
                            /\ C' = [C EXCEPT ![c].pc = "adding",
                                              ![c].w = connections[r.wrapper]]
    /\ \A c \in Clients :
         AddClient(c) =>
            \A o \in Created :
                W'[o].clients = IF o = C[c].w THEN W[o].clients \cup {c}
                                ELSE W[o].clients

C27_Inv ==
    \A o \in Created : \A c \in W[o].clients : C[c].w = o /\ C[c].pc # "none"

\* C27: an authenticated /ws request without a wrapper id is answered 400 and
\* one naming an unregistered id 404, both before any upgrade and without
\* adding a subscriber to any connection; a subscriber is added only to the
\* connection whose id was named.
C27_RelayResolution == [](C27_Inv) /\ [][C27_Step]_vars

\* two registered connections, a subscriber attached to the second one only
\* after a request that named it
C27_Witness ==
    /\ DOMAIN connections = {1, 2}
    /\ req.route = "/ws" /\ req.wrapper = 2 /\ http.status = 101
    /\ W[connections[2]].clients # {}
    /\ W[connections[1]].clients = {}

\* the pumps of a connection that have been started and have not returned
RunningReadPumps(o) ==
    {s \in 1..nSocks : S[s].owner = o /\ S[s].rp \notin {"none", "exited", "panic"}}

RunningWritePumps(o) ==
    {s \in 1..nSocks : S[s].owner = o /\ S[s].wp \notin {"none", "exited"}}

\* C28: a connection has at most one running read pump and at most one running
\* write pump: a reconnection does not leave a pump of an earlier dial running
\* next to the new one.
C28_OnePumpPair ==
    \A o \in Created :
        /\ Cardinality(RunningReadPumps(o)) <= 1
        /\ Cardinality(RunningWritePumps(o)) <= 1

\* C29: after a connection's done signal has fired, its manage loop and its
\* pumps terminate: none of them is left at a place it can never leave.  A read
\* pump standing at its call of RemoveClient can take clientsMu.
C29_TerminatesAfterDone ==
    \A s \in 1..nSocks :
        (IsDone(S[s].owner) /\ S[s].rp = "remove") => CanLock(S[s].owner)

RECURSIVE SumReceived(_)
SumReceived(n) == IF n = 0 THEN 0 ELSE W[n].MessagesReceived + SumReceived(n - 1)

C30_Inv ==
    /\ SumReceived(nObjs) = frames
    /\ \A o \in Created :
         /\ W[o].MessagesSent = Len(W[o].wire)
         /\ W[o].MessagesSent <= W[o].accepted

C30_Step ==
    \A o \in Created :
        /\ W'[o].MessagesSent >= W[o].MessagesSent
        /\ W'[o].MessagesReceived >= W[o].MessagesReceived
        /\ W'[o].MessagesReceived - W[o].MessagesReceived <= frames' - frames
        /\ W'[o].MessagesSent - W[o].MessagesSent = Len(W'[o].wire) - Len(W[o].wire)

\* C30: messagesSent and messagesReceived never decrease; messagesReceived goes
\* up by one for each frame read from the agent and messagesSent by one for each
\* payload written to it, so messagesSent never exceeds the number of payloads
\* SendMessage accepted.
C30_Counters == [](C30_Inv) /\ [][C30_Step]_vars

\* a connection that has written one payload and read one frame
C30_Witness ==
    \E o \in Created : W[o].MessagesSent = 1 /\ W[o].MessagesReceived = 1

\* C31: GetConnection(id) reports found exactly for the ids registered by a
\* successful Connect and not yet removed by DisconnectAll, and returns that
\* connection; ListConnections returns the connections registered at the
\* instant of the call, each once, and the returned slice is changed by no later
\* call (Connect and DisconnectAll included).
LiveWithId(id) == {o \in Created : W[o].ID = id /\ W[o].done = 0}

C31_Step ==
    /\ \A id \in Ids :
          GetConnection(id) =>
              /\ (ret'.res = "found") <=> (LiveWithId(id) # {})
              /\ ret'.res = "found" => ret'.o \in LiveWithId(id)
    /\ ListConnections =>
          /\ {list'[i] : i \in DOMAIN list'} = {o \in Created : W[o].done = 0}
          /\ Len(list') = Cardinality(Registered)
    /\ ~ListConnections => list' = list

C31_LookupAndSnapshot == [][C31_Step]_vars

C31_Witness ==
    /\ Len(list) = 2
    /\ connections = << >>
    /\ ret = [op |-> "GetConnection", o |-> 0, res |-> "notfound"]
    /\ \E o \in Created : W[o].ID = 1 /\ W[o].done = 1

\* C32: AddClient and RemoveClient always return: a gateway handler standing at
\* its call of AddClient or at the RemoveClient of its cleanup is never waiting
\* for a subscriber-set lock whose read side is held by a read pump that is
\* itself waiting, inside its broadcast loop, for the write side of that lock.
PumpHoldsAndWaits(o) ==
    \E s \in 1..nSocks : S[s].owner = o /\ S[s].rp = "remove" /\ W[o].rlock > 0

C32_SubscriberLockReturns ==
    \A c \in Clients :
        C[c].pc \in {"adding", "cleanup"} => ~PumpHoldsAndWaits(C[c].w)

\* C33: a read or write pump started with one transport never closes, writes to
\* or changes the status because of a transport opened by a later dial: every
\* step of a pump taken while the connection holds a later transport leaves
\* that transport open and unwritten and leaves Status as it was.
PumpStep(s) ==
    \/ readPump_start(s) \/ readPump_message(s) \/ readPump_readError(s)
    \/ readPump_broadcast(s) \/ readPump_defer(s)
    \/ writePump_recv(s) \/ writePump_done(s)
    \/ \E r \in WriteOutcomes :
          writePump_send(s, r) \/ writePump_ping(s, r) \/ writePump_defer(s, r)

C33_Step ==
    \A s \in 1..nSocks :
        LET o == S[s].owner
            c == W[o].conn IN
        (PumpStep(s) /\ c # 0 /\ c # s) =>
            /\ S'[c].open = S[c].open
            /\ S'[c].werr = S[c].werr
            /\ W'[o].wire = W[o].wire
            /\ W'[o].Status = W[o].Status

C33_PumpsOwnTransport == [][C33_Step]_vars

\* C34: the outbound queue survives reconnection and delivery is at most once:
\* no payload is written to the remote agent twice, and an accepted payload
\* that is neither queued, nor in the hands of a write pump, nor written, was
\* lost by a write pump whose write of it to a transport failed; no other step
\* (a reconnection that finds it queued included) makes a payload disappear.
InHand(o) == {S[s].wmsg : s \in {x \in 1..nSocks : S[x].owner = o /\ S[x].wp = "write"}}
Queued(o) == {W[o].sendChan[i] : i \in DOMAIN W[o].sendChan}
Written(o) == {W[o].wire[i] : i \in DOMAIN W[o].wire}
Kept(o) == Queued(o) \cup InHand(o) \cup Written(o)

C34_Inv ==
    \A o \in Created :
        /\ \A i, j \in DOMAIN W[o].wire : W[o].wire[i] = W[o].wire[j] => i = j
        /\ Kept(o) \subseteq 1..W[o].accepted

C34_Step ==
    \A o \in Created :
        \A m \in Kept(o) :
            m \notin Kept(o)' =>
                /\ W[o].conn # 0
                /\ \E s \in 1..nSocks : S[s].owner = o /\ S[s].wmsg = m /\
                                        writePump_send(s, "fail")

C34_QueueSurvives == [][C34_Inv' /\ C34_Step]_vars

\* C35: the automatic-retry counter stays within 0..maxReconnectAttempts; every
\* successful dial resets it to 0 when manage takes the result, so it is 0
\* while manage waits on an established connection; when that connection is
\* lost manage goes straight to the redial without sleeping, and the first
\* failure after it sleeps one base delay, the counter going up by one per
\* failure.
C35_Inv ==
    \A o \in Created :
        /\ W[o].reconnectAttempts \in 0..maxReconnectAttempts
        /\ W[o].pc \in {"wait304", "got304"} => W[o].reconnectAttempts = 0

C35_Step ==
    \A o \in Created :
        /\ manage_connected(o) => W'[o].reconnectAttempts = 0
        /\ (W[o].pc = "got304" /\ W'[o].pc # "got304") =>
               /\ W'[o].pc = "connect"
               /\ W'[o].slept = W[o].slept
               /\ W'[o].reconnectAttempts = 0
        /\ (W[o].pc \in {"connect", "dial"}) =>
               /\ W'[o].reconnectAttempts = W[o].reconnectAttempts
               /\ W'[o].pc # "sleep"
        /\ (W[o].pc # "sleep" /\ W'[o].pc = "sleep") =>
               /\ W'[o].reconnectAttempts = W[o].reconnectAttempts + 1
               /\ W'[o].slept - W[o].slept = reconnectDelay * W'[o].reconnectAttempts

C35_RetryCounter == []C35_Inv /\ [][C35_Step]_vars

\* sleeping one base delay after the first failed redial of a connection whose
\* first dial failed, whose second dial succeeded and which was then lost
C35_Witness ==
    \E o \in Created :
        /\ W[o].Reconnections = 1
        /\ W[o].pc = "sleep"
        /\ W[o].reconnectAttempts = 1
        /\ W[o].dials = 3
        /\ W[o].slept = reconnectDelay

\* C36: of the Retry() calls racing on a connection that waits for a manual
\* retry exactly one is accepted: an accepted call finds manage parked and takes
\* it out of its wait towards one dial, every call that is not accepted returns
\* an error and changes nothing, and no call has to wait: after a call has been
\* accepted the next call can run at once.
C36_Step ==
    \A o \in Created :
        Retry(o) =>
            IF ret'.res = "ok"
            THEN /\ ManageParked(o) /\ ~ManageParked(o)'
                 /\ W[o].pc = "wait280" => W'[o].pc = "connect"
                 /\ W'[o].Status = StatusConnecting
                 /\ W'[o].dials = W[o].dials
            ELSE /\ ret'.res \in {"already", "closed", "inprogress"}
                 /\ W' = W

C36_NoWait ==
    \A o \in Created :
        (ret = [op |-> "Retry", o |-> o, res |-> "ok"] /\ budget >= 1 /\ ~panicked)
            => ENABLED Retry(o)

C36_ConcurrentRetries == [][C36_Step /\ C36_NoWait']_vars

\* C37: the single-agent server keeps at most the last BufCap output lines, the
\* newest ones, in order; every socket receives the lines in the order the
\* runner produced them and none of them twice (a line is not sent by the
\* replay and by the broadcast), and the replay and the broadcast never write to
\* one socket at the same time.
C37_ReplayThenBroadcast ==
    /\ Len(server.outputBuffer) <= BufCap
    /\ \A i \in DOMAIN server.outputBuffer :
          server.outputBuffer[i] = server.produced - Len(server.outputBuffer) + i
    /\ \A k \in Conns :
          \A i, j \in DOMAIN server.conn[k].log :
              i < j => server.conn[k].log[i] < server.conn[k].log[j]
    /\ ~server.overlap

====
